---- MODULE Spec2Model ----
(***************************************************************************)
(* calc: a command-line arithmetic evaluator.  src/src/main.cpp holds two  *)
(* programs: the 64-bit one (lines 1-290: parse, check, calc,              *)
(* print_result, run) and the 32-bit one (lines 292-565: main,             *)
(* run_operation).  Both are modelled; `variant` says which one runs.      *)
(* The token list is the sequence of options getopt_long hands out.        *)
(* Integer widths are scaled down (LongBits, IntBits) so that every range  *)
(* edge is reachable; character strings are sequences of characters.       *)
(***************************************************************************)
EXTENDS Integers, Sequences, FiniteSets, TLC

VARIABLES variant, argv, optind, pc, c, rc, out, err, calls

vars == <<variant, argv, optind, pc, c, rc, out, err, calls>>

(* ------------------------------ bounds --------------------------------- *)

\* longest token list
MaxArgs == 3

\* width in bits of std::int64_t / long long / long, scaled down
LongBits == 5

\* width in bits of int in the 32-bit program: narrower than long
IntBits == LongBits - 1

(* --------------------------- program constants ------------------------- *)

exit_ok == 0

exit_usage == 1

exit_math == 2

kOps ==
    << [name |-> <<"a", "d", "d">>, op |-> "add"],
       [name |-> <<"s", "u", "b">>, op |-> "sub"],
       [name |-> <<"m", "u", "l">>, op |-> "mul"],
       [name |-> <<"d", "i", "v">>, op |-> "div"],
       [name |-> <<"p", "o", "w">>, op |-> "pow"],
       [name |-> <<"f", "a", "c", "t">>, op |-> "fact"] >>

kOpsCount == Len(kOps)

(* ------------------------------ integers ------------------------------- *)

MinS(w) == -(2 ^ (w - 1))

MaxS(w) == 2 ^ (w - 1) - 1

MaxU(w) == 2 ^ w - 1

\* static_cast<std::uint64_t>(v) / static_cast<unsigned int>(v)
ToUnsigned(v, w) == v % (2 ^ w)

\* the bits of a w-bit payload read as a signed number
ToSigned(bits, w) == IF bits >= 2 ^ (w - 1) THEN bits - 2 ^ w ELSE bits

(* --------------------------- strtoll / strtol -------------------------- *)

Digits == <<"0", "1", "2", "3", "4", "5", "6", "7", "8", "9">>

IsDigit(ch) == \E i \in 1..Len(Digits) : Digits[i] = ch

DigitVal(ch) == (CHOOSE i \in 1..Len(Digits) : Digits[i] = ch) - 1

RECURSIVE SkipSpace(_, _)
SkipSpace(s, i) ==
    IF i <= Len(s) /\ s[i] = " " THEN SkipSpace(s, i + 1) ELSE i

RECURSIVE ScanDigits(_, _, _)
ScanDigits(s, i, acc) ==
    IF i <= Len(s) /\ IsDigit(s[i])
    THEN ScanDigits(s, i + 1, acc * 10 + DigitVal(s[i]))
    ELSE [val |-> acc, end |-> i]

\* strtoll(s, &end, 10) on a w-bit long long: the value, the index end points
\* at (1 = s itself, Len(s) + 1 = the terminating NUL) and whether errno is
\* ERANGE (the value is then clamped).
strtoll(s, w) ==
    LET i0 == SkipSpace(s, 1)
        signed == i0 <= Len(s) /\ s[i0] \in {"-", "+"}
        neg == i0 <= Len(s) /\ s[i0] = "-"
        i1 == IF signed THEN i0 + 1 ELSE i0
        d == ScanDigits(s, i1, 0)
        v == IF neg THEN -d.val ELSE d.val
    IN  IF d.end = i1 THEN [v |-> 0, end |-> 1, erange |-> FALSE]
        ELSE IF v > MaxS(w) THEN [v |-> MaxS(w), end |-> d.end, erange |-> TRUE]
        ELSE IF v < MinS(w) THEN [v |-> MinS(w), end |-> d.end, erange |-> TRUE]
        ELSE [v |-> v, end |-> d.end, erange |-> FALSE]

(* ----------------------------- printf ----------------------------------- *)

RECURSIVE FormatUnsigned(_)
\* "%llu": the decimal digits of n >= 0
FormatUnsigned(n) ==
    IF n < 10 THEN <<Digits[n + 1]>>
    ELSE FormatUnsigned(n \div 10) \o <<Digits[(n % 10) + 1]>>

\* "%lld" / "%d"
FormatSigned(n) ==
    IF n < 0 THEN <<"-">> \o FormatUnsigned(-n) ELSE FormatUnsigned(n)

\* one line of standard output holding a number
NumberLine(text) == [kind |-> "number", text |-> text]

\* the usage text help() / print_help() prints on standard output
UsageText == [kind |-> "usage", text |-> <<>>]

(* ------------------- mathlib (the library behind mathlib.h) ------------- *)
(* The library's code is not part of the repository; its functions follow  *)
(* the contract table of the specification (section 4.2).  A result is     *)
(* [error, kind, value], value being the payload bits.  The payload of a   *)
(* failed result is not specified: it is any of the listed payloads.       *)

Success(kind, v, w) == {[error |-> "ok", kind |-> kind, value |-> ToUnsigned(v, w)]}

Failure(e, kind, payloads) == {[error |-> e, kind |-> kind, value |-> p] : p \in payloads}

TruncDiv(a, b) ==
    LET q == (IF a < 0 THEN -a ELSE a) \div (IF b < 0 THEN -b ELSE b)
    IN  IF (a < 0) # (b < 0) THEN -q ELSE q

ml_add(a, b, w) ==
    IF a + b \in MinS(w)..MaxS(w) THEN Success("i64", a + b, w)
    ELSE Failure("overflow", "i64", {0, ToUnsigned(a + b, w)})

ml_sub(a, b, w) ==
    IF a - b \in MinS(w)..MaxS(w) THEN Success("i64", a - b, w)
    ELSE Failure("overflow", "i64", {0, ToUnsigned(a - b, w)})

ml_mul(a, b, w) ==
    IF a * b \in MinS(w)..MaxS(w) THEN Success("i64", a * b, w)
    ELSE Failure("overflow", "i64", {0, ToUnsigned(a * b, w)})

ml_div(a, b, w) ==
    IF b = 0 THEN Failure("div0", "i64", {0})
    ELSE IF TruncDiv(a, b) \in MinS(w)..MaxS(w) THEN Success("i64", TruncDiv(a, b), w)
    ELSE Failure("overflow", "i64", {0})

RECURSIVE PowAcc(_, _, _, _)
PowAcc(base, n, acc, w) ==
    IF n = 0 THEN [ok |-> TRUE, v |-> acc]
    ELSE IF acc * base \notin MinS(w)..MaxS(w) THEN [ok |-> FALSE, v |-> acc]
    ELSE PowAcc(base, n - 1, acc * base, w)

ml_pow(base, exp, w) ==
    LET p == PowAcc(base, exp, 1, w)
    IN  IF p.ok THEN Success("i64", p.v, w)
        ELSE Failure("overflow", "i64", {0, ToUnsigned(p.v, w)})

RECURSIVE FactAcc(_, _, _, _)
FactAcc(i, n, acc, max) ==
    IF i > n THEN [ok |-> TRUE, v |-> acc]
    ELSE IF acc * i > max THEN [ok |-> FALSE, v |-> acc]
    ELSE FactAcc(i + 1, n, acc * i, max)

\* the 64-bit library returns n! as an unsigned payload (kind u64), the
\* 32-bit one as an int
ml_fact(n, w, kind) ==
    LET f == FactAcc(1, n, 1, IF kind = "u64" THEN MaxU(w) ELSE MaxS(w))
    IN  IF f.ok THEN Success(kind, f.v, w)
        ELSE Failure("overflow", kind, {0, ToUnsigned(f.v, w)})

\* the engine function a call record names, applied to the record's arguments
ml_call(call, w, factKind) ==
    CASE call.fn = "ml_add" -> ml_add(call.args[1], call.args[2], w)
      [] call.fn = "ml_sub" -> ml_sub(call.args[1], call.args[2], w)
      [] call.fn = "ml_mul" -> ml_mul(call.args[1], call.args[2], w)
      [] call.fn = "ml_div" -> ml_div(call.args[1], call.args[2], w)
      [] call.fn = "ml_pow" -> ml_pow(call.args[1], call.args[2], w)
      [] call.fn = "ml_fact" -> ml_fact(call.args[1], w, factKind)

(* ------------------------ shared by both programs ------------------------ *)

\* needs_b with pow left out of the list
needs_b_without_pow(op) == op \in {"add", "sub", "mul", "div"}

\* needs_b (lines 83-86, and the switch of lines 389-417)
needs_b(op) == op \in {"add", "sub", "mul", "div", "pow"}

\* parse_op that reports a match whatever the name, writing *out only on a match
parse_op_unchecked(s, old) ==
    LET hits == {i \in 1..kOpsCount : kOps[i].name = s}
    IN  IF hits = {} THEN [ok |-> TRUE, out |-> old]
        ELSE [ok |-> TRUE, out |-> kOps[CHOOSE i \in hits : \A j \in hits : i <= j].op]

\* parse_op / parse_operation: strcmp against the table, first match wins;
\* *out is written only on a match
parse_op(s, old) ==
    LET hits == {i \in 1..kOpsCount : kOps[i].name = s}
    IN  IF hits = {} THEN [ok |-> FALSE, out |-> old]
        ELSE [ok |-> TRUE, out |-> kOps[CHOOSE i \in hits : \A j \in hits : i <= j].op]

\* what one pass of the switch hands back to the loop
Step(ctx, returned, code, o, e) ==
    [c |-> ctx, returned |-> returned, rc |-> code, out |-> o, err |-> e]

\* what a function that only reports hands back
Report(code, o, e) == [rc |-> code, out |-> o, err |-> e]

\* mathlib::ml_result r {}
NoResult == [error |-> "ok", kind |-> "i64", value |-> 0]

\* context c {} / the locals of the 32-bit main
NewContext ==
    [op |-> "none", have_op |-> FALSE, a |-> 0, have_a |-> FALSE,
     b |-> 0, have_b |-> FALSE, r |-> NoResult]

(* --------------------------- the 64-bit program -------------------------- *)

\* parse_i64 that returns true without writing *out
parse_i64_without_store(s, old) ==
    LET t == strtoll(s, LongBits)
    IN  IF t.end = 1 \/ t.end <= Len(s) THEN [ok |-> FALSE, out |-> old]
        ELSE IF t.erange THEN [ok |-> FALSE, out |-> old]
        ELSE [ok |-> TRUE, out |-> old]

parse_i64(s, old) ==
    LET t == strtoll(s, LongBits)
    IN  IF t.end = 1 \/ t.end <= Len(s) THEN [ok |-> FALSE, out |-> old]
        ELSE IF t.erange THEN [ok |-> FALSE, out |-> old]
        ELSE [ok |-> TRUE, out |-> t.v]

print_math_err(where, e) ==
    IF e = "div0" THEN Report(exit_math, <<>>, <<"Error: calc: division by zero">>)
    ELSE IF e = "overflow" THEN Report(exit_math, <<>>, <<"Error: calc: overflow">>)
    ELSE Report(exit_math, <<>>, <<"Error: calc: math error">>)

print_result(r) ==
    IF r.error # "ok" THEN print_math_err("calc", r.error)
    ELSE IF r.kind = "i64"
         THEN Report(exit_ok, <<NumberLine(FormatSigned(ToSigned(r.value, LongBits)))>>, <<>>)
         ELSE Report(exit_ok, <<NumberLine(FormatUnsigned(r.value))>>, <<>>)

\* case 'h' with break in place of return
parse_help_goes_on(ctx) == Step(ctx, FALSE, exit_ok, <<UsageText>>, <<>>)

\* case 'h' of parse's switch (lines 188-191)
parse_help(ctx) == Step(ctx, TRUE, exit_usage, <<UsageText>>, <<>>)

\* the body of parse's switch for one option of getopt_long
parse_case(ctx, tok) ==
    CASE tok.flag = "o" ->
            LET p == parse_op(tok.arg, ctx.op)
                n == [ctx EXCEPT !.have_op = p.ok, !.op = p.out]
            IN  IF ~p.ok
                THEN Step(n, TRUE, exit_usage, <<>>, <<"Error: unknown operation '%s'">>)
                ELSE Step(n, FALSE, exit_ok, <<>>, <<>>)
      [] tok.flag = "a" ->
            LET p == parse_i64(tok.arg, ctx.a)
                n == [ctx EXCEPT !.have_a = p.ok, !.a = p.out]
            IN  IF ~p.ok
                THEN Step(n, TRUE, exit_usage, <<>>, <<"Error: invalid integer for -a: '%s'">>)
                ELSE Step(n, FALSE, exit_ok, <<>>, <<>>)
      [] tok.flag = "b" ->
            LET p == parse_i64(tok.arg, ctx.b)
                n == [ctx EXCEPT !.have_b = p.ok, !.b = p.out]
            IN  IF ~p.ok
                THEN Step(n, TRUE, exit_usage, <<>>, <<"Error: invalid integer for -b: '%s'">>)
                ELSE Step(n, FALSE, exit_ok, <<>>, <<>>)
      [] tok.flag = "h" -> parse_help(ctx)
      [] OTHER -> Step(ctx, TRUE, exit_usage, <<UsageText>>, <<>>)

\* check without the test for a useless -b
check_accepts_useless_b(ctx) ==
    IF ~ctx.have_op \/ ~ctx.have_a
    THEN Report(exit_usage, <<UsageText>>, <<"Error: missing -o or -a">>)
    ELSE IF needs_b(ctx.op) /\ ~ctx.have_b
    THEN Report(exit_usage, <<UsageText>>, <<"Error: missing -b for this op">>)
    ELSE IF ctx.op = "pow" /\ ctx.b < 0
    THEN Report(exit_math, <<>>, <<"Error: pow: domain error (b must be >= 0)">>)
    ELSE IF ctx.op = "fact" /\ ctx.a < 0
    THEN Report(exit_math, <<>>, <<"Error: fact: domain error (a must be >= 0)">>)
    ELSE Report(exit_ok, <<>>, <<>>)

\* check with the domain tests ahead of the arity tests
check_domain_first(ctx) ==
    IF ~ctx.have_op \/ ~ctx.have_a
    THEN Report(exit_usage, <<UsageText>>, <<"Error: missing -o or -a">>)
    ELSE IF ctx.op = "pow" /\ ctx.b < 0
    THEN Report(exit_math, <<>>, <<"Error: pow: domain error (b must be >= 0)">>)
    ELSE IF ctx.op = "fact" /\ ctx.a < 0
    THEN Report(exit_math, <<>>, <<"Error: fact: domain error (a must be >= 0)">>)
    ELSE IF ~needs_b(ctx.op) /\ ctx.have_b
    THEN Report(exit_usage, <<UsageText>>, <<"Error: useless -b for this op">>)
    ELSE IF needs_b(ctx.op) /\ ~ctx.have_b
    THEN Report(exit_usage, <<UsageText>>, <<"Error: missing -b for this op">>)
    ELSE Report(exit_ok, <<>>, <<>>)

\* check without the domain test of fact
check_without_fact_domain(ctx) ==
    IF ~ctx.have_op \/ ~ctx.have_a
    THEN Report(exit_usage, <<UsageText>>, <<"Error: missing -o or -a">>)
    ELSE IF ~needs_b(ctx.op) /\ ctx.have_b
    THEN Report(exit_usage, <<UsageText>>, <<"Error: useless -b for this op">>)
    ELSE IF needs_b(ctx.op) /\ ~ctx.have_b
    THEN Report(exit_usage, <<UsageText>>, <<"Error: missing -b for this op">>)
    ELSE IF ctx.op = "pow" /\ ctx.b < 0
    THEN Report(exit_math, <<>>, <<"Error: pow: domain error (b must be >= 0)">>)
    ELSE Report(exit_ok, <<>>, <<>>)

check(ctx) ==
    IF ~ctx.have_op \/ ~ctx.have_a
    THEN Report(exit_usage, <<UsageText>>, <<"Error: missing -o or -a">>)
    ELSE IF ~needs_b(ctx.op) /\ ctx.have_b
    THEN Report(exit_usage, <<UsageText>>, <<"Error: useless -b for this op">>)
    ELSE IF needs_b(ctx.op) /\ ~ctx.have_b
    THEN Report(exit_usage, <<UsageText>>, <<"Error: missing -b for this op">>)
    ELSE IF ctx.op = "pow" /\ ctx.b < 0
    THEN Report(exit_math, <<>>, <<"Error: pow: domain error (b must be >= 0)">>)
    ELSE IF ctx.op = "fact" /\ ctx.a < 0
    THEN Report(exit_math, <<>>, <<"Error: fact: domain error (a must be >= 0)">>)
    ELSE Report(exit_ok, <<>>, <<>>)

\* calc's switch with the operands of sub and div in the wrong order
calc_call_swapped(ctx) ==
    CASE ctx.op = "add" -> [fn |-> "ml_add", args |-> <<ctx.a, ctx.b>>]
      [] ctx.op = "sub" -> [fn |-> "ml_sub", args |-> <<ctx.b, ctx.a>>]
      [] ctx.op = "mul" -> [fn |-> "ml_mul", args |-> <<ctx.a, ctx.b>>]
      [] ctx.op = "div" -> [fn |-> "ml_div", args |-> <<ctx.b, ctx.a>>]
      [] ctx.op = "pow" -> [fn |-> "ml_pow", args |-> <<ctx.a, ToUnsigned(ctx.b, LongBits)>>]
      [] ctx.op = "fact" -> [fn |-> "ml_fact", args |-> <<ToUnsigned(ctx.a, LongBits)>>]
      [] OTHER -> [fn |-> "none", args |-> <<>>]

\* the engine call calc's switch makes for ctx.op (fn "none": the default branch)
calc_call(ctx) ==
    CASE ctx.op = "add" -> [fn |-> "ml_add", args |-> <<ctx.a, ctx.b>>]
      [] ctx.op = "sub" -> [fn |-> "ml_sub", args |-> <<ctx.a, ctx.b>>]
      [] ctx.op = "mul" -> [fn |-> "ml_mul", args |-> <<ctx.a, ctx.b>>]
      [] ctx.op = "div" -> [fn |-> "ml_div", args |-> <<ctx.a, ctx.b>>]
      [] ctx.op = "pow" -> [fn |-> "ml_pow", args |-> <<ctx.a, ToUnsigned(ctx.b, LongBits)>>]
      [] ctx.op = "fact" -> [fn |-> "ml_fact", args |-> <<ToUnsigned(ctx.a, LongBits)>>]
      [] OTHER -> [fn |-> "none", args |-> <<>>]

\* calc: the outcomes of the switch, one per result the engine may return
calc(ctx) ==
    LET call == calc_call(ctx)
    IN  IF call.fn = "none"
        THEN {[c |-> ctx, calls |-> <<>>, rc |-> exit_usage,
               err |-> <<"Error: unknown operation">>]}
        ELSE {[c |-> [ctx EXCEPT !.r = r], calls |-> <<call>>, rc |-> exit_ok,
               err |-> <<>>] : r \in ml_call(call, LongBits, "u64")}

(* --------------------------- the 32-bit program -------------------------- *)

\* parse_int: strtol on a long, then the INT_MIN..INT_MAX test; errno is not read
parse_int(s, old) ==
    LET t == strtoll(s, LongBits)
    IN  IF t.end = 1 \/ t.end <= Len(s) THEN [ok |-> FALSE, out |-> old]
        ELSE IF t.v < MinS(IntBits) \/ t.v > MaxS(IntBits) THEN [ok |-> FALSE, out |-> old]
        ELSE [ok |-> TRUE, out |-> t.v]

print_math_error(name, e) ==
    IF e = "div0" THEN Report(exit_math, <<>>, <<"Error: div: division by zero">>)
    ELSE Report(exit_math, <<>>, <<"Error: div: unknown math error">>)

\* the body of main's switch for one option of getopt_long
main_case(ctx, tok) ==
    CASE tok.flag = "o" ->
            LET p == parse_op(tok.arg, ctx.op)
                n == [ctx EXCEPT !.have_op = p.ok, !.op = p.out]
            IN  IF ~p.ok
                THEN Step(n, TRUE, exit_usage, <<>>, <<"Error: unknown operation '%s'">>)
                ELSE Step(n, FALSE, exit_ok, <<>>, <<>>)
      [] tok.flag = "a" ->
            LET p == parse_int(tok.arg, ctx.a)
                n == [ctx EXCEPT !.have_a = p.ok, !.a = p.out]
            IN  IF ~p.ok
                THEN Step(n, TRUE, exit_usage, <<>>, <<"Error: invalid integer for -a: '%s'">>)
                ELSE Step(n, FALSE, exit_ok, <<>>, <<>>)
      [] tok.flag = "b" ->
            LET p == parse_int(tok.arg, ctx.b)
                n == [ctx EXCEPT !.have_b = p.ok, !.b = p.out]
            IN  IF ~p.ok
                THEN Step(n, TRUE, exit_usage, <<>>, <<"Error: invalid integer for -b: '%s'">>)
                ELSE Step(n, FALSE, exit_ok, <<>>, <<>>)
      [] tok.flag = "h" -> Step(ctx, TRUE, exit_ok, <<UsageText>>, <<>>)
      [] OTHER -> Step(ctx, TRUE, exit_usage, <<UsageText>>, <<>>)

\* the tests main makes between the loop and run_operation (lines 541-562)
main_check(ctx) ==
    IF ~ctx.have_op \/ ~ctx.have_a
    THEN Report(exit_usage, <<UsageText>>, <<"Error: missing required arguments">>)
    ELSE IF ~needs_b(ctx.op) /\ ctx.have_b
    THEN Report(exit_usage, <<UsageText>>, <<"Error: useless -b for this operation">>)
    ELSE IF needs_b(ctx.op) /\ ~ctx.have_b
    THEN Report(exit_usage, <<UsageText>>, <<"Error: missing -b for this operation">>)
    ELSE IF ctx.op = "pow" /\ ctx.b < 0
    THEN Report(exit_math, <<>>, <<"Error: pow: domain error (b must be >= 0)">>)
    ELSE Report(exit_ok, <<>>, <<>>)

\* what run_operation leaves behind: the engine call made, the result got,
\* the lines written and the value returned
Outcome(cs, r, code, o, e) == [calls |-> cs, r |-> r, rc |-> code, out |-> o, err |-> e]

\* std::printf("%d\n", r.value); return ok
PrintValue(call, r) ==
    Outcome(<<call>>, r, exit_ok, <<NumberLine(FormatSigned(ToSigned(r.value, IntBits)))>>, <<>>)

run_operation(op, a, b) ==
    CASE op = "add" ->
            LET call == [fn |-> "ml_add", args |-> <<a, b>>]
            IN  {PrintValue(call, r) : r \in ml_call(call, IntBits, "i64")}
      [] op = "sub" ->
            LET call == [fn |-> "ml_sub", args |-> <<a, b>>]
            IN  {PrintValue(call, r) : r \in ml_call(call, IntBits, "i64")}
      [] op = "mul" ->
            LET call == [fn |-> "ml_mul", args |-> <<a, b>>]
            IN  {PrintValue(call, r) : r \in ml_call(call, IntBits, "i64")}
      [] op = "div" ->
            LET call == [fn |-> "ml_div", args |-> <<a, b>>]
            IN  {IF r.error # "ok"
                 THEN LET m == print_math_error("div", r.error)
                      IN  Outcome(<<call>>, r, m.rc, m.out, m.err)
                 ELSE PrintValue(call, r) : r \in ml_call(call, IntBits, "i64")}
      [] op = "pow" ->
            IF b < 0
            THEN {Outcome(<<>>, NoResult, exit_math, <<>>,
                          <<"Error: pow: domain error (b must be >= 0)">>)}
            ELSE LET call == [fn |-> "ml_pow", args |-> <<a, ToUnsigned(b, IntBits)>>]
                 IN  {PrintValue(call, r) : r \in ml_call(call, IntBits, "i64")}
      [] op = "fact" ->
            IF a < 0
            THEN {Outcome(<<>>, NoResult, exit_math, <<>>,
                          <<"Error: fact: domain error (a must be >= 0)">>)}
            ELSE LET call == [fn |-> "ml_fact", args |-> <<ToUnsigned(a, IntBits)>>]
                 IN  {PrintValue(call, r) : r \in ml_call(call, IntBits, "i64")}
      [] OTHER -> {Outcome(<<>>, NoResult, exit_usage, <<>>, <<"Error: unknown operation">>)}

(* ------------------------------- inputs ---------------------------------- *)

\* the operation names a command line may carry: the table's and one more
OpNames == {kOps[i].name : i \in 1..kOpsCount} \cup {<<"x", "o", "r">>}

\* the operand texts a command line may carry
IntTexts ==
    {<<"-", "1">>, <<"0">>, <<"2">>, <<"4">>, <<"1", "5">>,
     <<"2", "x">>, <<"9", "9">>, <<>>}

\* what getopt_long hands out: -o/-a/-b with optarg, -h, or '?' for an
\* unrecognized flag or a flag without its argument
Tokens ==
    {[flag |-> "o", arg |-> n] : n \in OpNames}
        \cup {[flag |-> f, arg |-> t] : f \in {"a", "b"}, t \in IntTexts}
        \cup {[flag |-> "h", arg |-> <<>>], [flag |-> "?", arg |-> <<>>]}

ArgLists == UNION {[1..n -> Tokens] : n \in 0..MaxArgs}

(* ------------------------------ the machine ------------------------------ *)

Init ==
    /\ variant \in {"v64", "v32"}
    /\ argv \in ArgLists
    /\ optind = 1
    /\ pc = "parse"
    /\ c = NewContext
    /\ rc = exit_ok
    /\ out = <<>>
    /\ err = <<>>
    /\ calls = <<>>

\* one turn of the getopt_long loop, s being what the switch body makes of
\* argv[optind]; the loop's end hands over to `next`
Loop(s, next) ==
    IF optind > Len(argv)
    THEN /\ pc' = next
         /\ UNCHANGED <<variant, argv, optind, c, rc, out, err, calls>>
    ELSE /\ c' = s.c
         /\ optind' = optind + 1
         /\ out' = out \o s.out
         /\ err' = err \o s.err
         /\ rc' = s.rc
         /\ pc' = IF s.returned THEN "done" ELSE pc
         /\ UNCHANGED <<variant, argv, calls>>

\* a reporting function's result: the lines written, and the exit if not ok
Reported(k, next) ==
    /\ out' = out \o k.out
    /\ err' = err \o k.err
    /\ rc' = k.rc
    /\ pc' = IF k.rc # exit_ok THEN "done" ELSE next

\* run, line 268: parse
Parse ==
    /\ variant = "v64"
    /\ pc = "parse"
    /\ Loop(parse_case(c, argv[optind]), "check")

\* run, line 273: check
Check ==
    /\ variant = "v64"
    /\ pc = "check"
    /\ Reported(check(c), "calc")
    /\ UNCHANGED <<variant, argv, optind, c, calls>>

\* run, line 278: calc
Calc ==
    /\ variant = "v64"
    /\ pc = "calc"
    /\ \E o \in calc(c) :
          /\ c' = o.c
          /\ calls' = calls \o o.calls
          /\ err' = err \o o.err
          /\ rc' = o.rc
          /\ pc' = IF o.rc # exit_ok THEN "done" ELSE "print"
    /\ UNCHANGED <<variant, argv, optind, out>>

\* run, line 282: print_result
PrintResult ==
    /\ variant = "v64"
    /\ pc = "print"
    /\ Reported(print_result(c.r), "done")
    /\ UNCHANGED <<variant, argv, optind, c, calls>>

\* main, lines 504-539
MainLoop ==
    /\ variant = "v32"
    /\ pc = "parse"
    /\ Loop(main_case(c, argv[optind]), "check")

\* main, lines 541-562
MainCheck ==
    /\ variant = "v32"
    /\ pc = "check"
    /\ Reported(main_check(c), "calc")
    /\ UNCHANGED <<variant, argv, optind, c, calls>>

\* main, line 564: run_operation
RunOperation ==
    /\ variant = "v32"
    /\ pc = "calc"
    /\ \E o \in run_operation(c.op, c.a, c.b) :
          /\ c' = [c EXCEPT !.r = o.r]
          /\ calls' = calls \o o.calls
          /\ out' = out \o o.out
          /\ err' = err \o o.err
          /\ rc' = o.rc
    /\ pc' = "done"
    /\ UNCHANGED <<variant, argv, optind>>

Next ==
    \/ Parse
    \/ Check
    \/ Calc
    \/ PrintResult
    \/ MainLoop
    \/ MainCheck
    \/ RunOperation

Spec == Init /\ [][Next]_vars

(* ---------------- the command line, read without the program ------------- *)

TwoOperandOps == {"add", "sub", "mul", "div", "pow"}

SupportedOps == TwoOperandOps \cup {"fact"}

KnownName(name) == \E i \in 1..kOpsCount : kOps[i].name = name

OpNamed(name) == kOps[CHOOSE i \in 1..kOpsCount : kOps[i].name = name].op

\* an optional sign followed by at least one digit, and nothing else
IsDecimal(text) ==
    LET body == IF text # <<>> /\ text[1] \in {"-", "+"} THEN Tail(text) ELSE text
    IN  body # <<>> /\ \A i \in 1..Len(body) : IsDigit(body[i])

RECURSIVE DigitsValue(_)
DigitsValue(ds) ==
    IF ds = <<>> THEN 0
    ELSE DigitsValue(SubSeq(ds, 1, Len(ds) - 1)) * 10 + DigitVal(ds[Len(ds)])

\* the number a decimal text denotes
DecValue(text) ==
    IF text[1] = "-" THEN -DigitsValue(Tail(text))
    ELSE IF text[1] = "+" THEN DigitsValue(Tail(text))
    ELSE DigitsValue(text)

\* the width of the running program's operands
OperandBits == IF variant = "v64" THEN LongBits ELSE IntBits

GoodInt(text) ==
    IsDecimal(text) /\ DecValue(text) \in MinS(OperandBits)..MaxS(OperandBits)

\* a -o, -a or -b whose value is an unknown name or a malformed integer
BadValue(tok) ==
    \/ tok.flag = "o" /\ ~KnownName(tok.arg)
    \/ tok.flag \in {"a", "b"} /\ ~GoodInt(tok.arg)

\* every token is a -o, -a or -b carrying a well-formed value
AllWellFormed ==
    \A i \in 1..Len(argv) : argv[i].flag \in {"o", "a", "b"} /\ ~BadValue(argv[i])

Supplied(flag) == \E i \in 1..Len(argv) : argv[i].flag = flag

LastArg(flag) ==
    argv[CHOOSE i \in 1..Len(argv) :
            /\ argv[i].flag = flag
            /\ \A j \in (i + 1)..Len(argv) : argv[j].flag # flag].arg

\* the request the command line asks for (last occurrence of each flag)
ReqOp == OpNamed(LastArg("o"))

ReqA == DecValue(LastArg("a"))

ReqB == DecValue(LastArg("b"))

\* well-formed tokens, an operation and operand A
Complete == AllWellFormed /\ Supplied("o") /\ Supplied("a")

ArityRight == Complete /\ (Supplied("b") <=> ReqOp \in TwoOperandOps)

DomainViolation ==
    \/ ReqOp = "pow" /\ ReqB < 0
    \/ ReqOp = "fact" /\ ReqA < 0

ValidRequest == ArityRight /\ ~DomainViolation

\* the token the loop stops at is the i-th: nothing before it stops the loop
StopsAt(i) ==
    /\ i \in 1..Len(argv)
    /\ argv[i].flag \in {"h", "?"} \/ BadValue(argv[i])
    /\ \A j \in 1..(i - 1) : argv[j].flag \in {"o", "a", "b"} /\ ~BadValue(argv[j])

HelpReached == \E i \in 1..Len(argv) : StopsAt(i) /\ argv[i].flag = "h"

\* an unknown operation, a malformed integer, a missing operation or operand,
\* or an extraneous operand somewhere on the command line
UsageFault ==
    \/ \E i \in 1..Len(argv) : BadValue(argv[i])
    \/ ~Supplied("o")
    \/ ~Supplied("a")
    \/ KnownName(LastArg("o")) /\ (Supplied("b") <=> ReqOp = "fact")

IsNumber(line) == line.kind = "number"

Printed(kind) == \E i \in 1..Len(out) : out[i].kind = kind

UnexpectedArgument ==
    {"Error: useless -b for this op", "Error: useless -b for this operation"}

MissingArgument ==
    {"Error: missing -b for this op", "Error: missing -b for this operation"}

DomainError ==
    {"Error: pow: domain error (b must be >= 0)",
     "Error: fact: domain error (a must be >= 0)"}

Reports(msgs) == \E i \in 1..Len(err) : err[i] \in msgs

(* --------------------------------- claims -------------------------------- *)

\* C1: an engine function is called only when the operation was resolved from
\* the table, operand A was parsed, and operand B was parsed exactly when the
\* operation is one of add, sub, mul, div, pow (absent for fact); the flags of
\* the program agree with what the command line supplies.
C1_EngineOnlyOnCompleteRequest ==
    calls # <<>> =>
        /\ c.have_op /\ c.op \in SupportedOps
        /\ c.have_a
        /\ c.have_b <=> c.op \in TwoOperandOps
        /\ AllWellFormed /\ Supplied("o") /\ Supplied("a")
        /\ Supplied("b") <=> ReqOp \in TwoOperandOps

C1_Witness ==
    /\ calls # <<>>
    /\ calls[1].fn = "ml_fact"
    /\ ~c.have_b
    /\ Len(argv) = MaxArgs

\* C2 as stated: exit code 2 only for a structurally valid request, and every
\* invocation with an unknown operation, a malformed integer, a missing operand
\* or an extraneous operand ends with exit code 1 without an engine call.
C2_Original ==
    pc = "done" =>
        /\ rc = exit_math => ArityRight
        /\ UsageFault => rc = exit_usage /\ calls = <<>>

\* C2 as amended: exit code 2 only for a structurally valid request; an
\* invocation with an unknown operation, a malformed integer, a missing operand
\* or an extraneous operand never calls the engine and never ends with exit
\* code 2, whatever its operands; it ends with exit code 1, except in the 32-bit
\* program when the help flag is reached first, where it ends with exit code 0.
C2_UsageBeforeMath ==
    pc = "done" =>
        /\ rc = exit_math => ArityRight
        /\ UsageFault =>
              /\ calls = <<>>
              /\ rc # exit_math
              /\ ~(variant = "v32" /\ HelpReached) => rc = exit_usage
              /\ variant = "v32" /\ HelpReached => rc = exit_ok

C2_Witness ==
    /\ pc = "done"
    /\ AllWellFormed /\ Supplied("o") /\ Supplied("a") /\ Supplied("b")
    /\ ReqOp = "fact" /\ ReqA < 0
    /\ rc = exit_usage
    /\ calls = <<>>

\* C3 as stated: a help flag anywhere on the command line makes the invocation
\* print the usage text, report no error, call no engine function and exit 0.
C3_Original ==
    pc = "done" /\ Supplied("h") =>
        /\ out = <<UsageText>>
        /\ err = <<>>
        /\ calls = <<>>
        /\ rc = exit_ok

\* C3 as amended: the help flag short-circuits what follows it.  When it is
\* reached (no unknown operation, malformed integer or unrecognized flag comes
\* before it) the invocation prints the usage text, reports no error and calls
\* no engine function, whatever follows; the exit code is 0 in the 32-bit
\* program and 1 in the 64-bit program.  When such a token comes before it,
\* the invocation ends with exit code 1 and no engine call.
C3_HelpShortCircuitsTheRest ==
    pc = "done" /\ Supplied("h") =>
        /\ calls = <<>>
        /\ HelpReached =>
              /\ out = <<UsageText>>
              /\ err = <<>>
              /\ rc = IF variant = "v32" THEN exit_ok ELSE exit_usage
        /\ ~HelpReached => rc = exit_usage

C3_Witness ==
    /\ pc = "done"
    /\ HelpReached
    /\ Len(argv) = MaxArgs
    /\ argv[1].flag = "o"
    /\ argv[2].flag = "h"
    /\ BadValue(argv[3])
    /\ out = <<UsageText>>

\* C4 as stated: whenever the engine returns a result whose error is not ok,
\* no number is printed, an error line is printed and the exit code is 2; a
\* number and exit code 0 occur only when the engine returned ok.
C4_Original ==
    pc = "done" /\ calls # <<>> =>
        /\ c.r.error # "ok" =>
              /\ ~Printed("number")
              /\ err # <<>>
              /\ rc = exit_math
        /\ Printed("number") /\ rc = exit_ok => c.r.error = "ok"

\* C5: with well-formed tokens and the right arity, pow with a negative B and
\* fact with a negative A end with exit code 2 and a domain error line and call
\* no engine function; the exponent handed to ml_pow and the n handed to
\* ml_fact are non-negative and equal to the parsed operand.
C5_DomainPreCheck ==
    /\ pc = "done" /\ ArityRight /\ DomainViolation =>
          /\ rc = exit_math
          /\ Len(err) = 1 /\ err[1] \in DomainError
          /\ calls = <<>>
    /\ \A i \in 1..Len(calls) :
          /\ calls[i].fn = "ml_pow" =>
                calls[i].args[2] >= 0 /\ calls[i].args[2] = c.b /\ c.b = ReqB
          /\ calls[i].fn = "ml_fact" =>
                calls[i].args[1] >= 0 /\ calls[i].args[1] = c.a /\ c.a = ReqA

C5_Witness ==
    /\ pc = "done"
    /\ ArityRight
    /\ ReqOp = "pow" /\ ReqB < 0
    /\ rc = exit_math
    /\ calls = <<>>

\* C6 as stated: every failing invocation writes exactly one error line, and
\* every usage failure (exit code 1) emits the usage text as well.
C6_Original ==
    pc = "done" /\ rc # exit_ok =>
        /\ Len(err) = 1
        /\ rc = exit_usage => Printed("usage")

\* C7: with well-formed tokens, an operation and operand A, supplying B with
\* fact is the unexpected-argument failure, omitting B with add, sub, mul, div
\* or pow is the missing-argument failure, both with exit code 1; in every
\* other arity combination neither failure is reported.
C7_ArityClassification ==
    pc = "done" /\ Complete =>
        /\ ReqOp = "fact" /\ Supplied("b") =>
              /\ Len(err) = 1 /\ err[1] \in UnexpectedArgument
              /\ rc = exit_usage
        /\ ReqOp \in TwoOperandOps /\ ~Supplied("b") =>
              /\ Len(err) = 1 /\ err[1] \in MissingArgument
              /\ rc = exit_usage
        /\ ArityRight => ~Reports(UnexpectedArgument \cup MissingArgument)

C7_Witness ==
    /\ pc = "done"
    /\ Complete
    /\ ReqOp = "pow" /\ ~Supplied("b")
    /\ Reports(MissingArgument)

(* the exact results, computed without the engine *)

Abs(x) == IF x < 0 THEN -x ELSE x

\* the quotient truncated toward zero: a = q * b + r, |r| < |b|, r = 0 or r has a's sign
ExactQuotient(a, b) ==
    CHOOSE q \in -Abs(a)..Abs(a) :
        LET r == a - q * b
        IN  Abs(r) < Abs(b) /\ (r = 0 \/ ((r < 0) <=> (a < 0)))

RECURSIVE ExactPower(_, _)
ExactPower(a, n) == IF n = 0 THEN 1 ELSE a * ExactPower(a, n - 1)

RECURSIVE ExactFactorial(_)
ExactFactorial(n) == IF n = 0 THEN 1 ELSE n * ExactFactorial(n - 1)

Exact(op, a, b) ==
    CASE op = "add" -> a + b
      [] op = "sub" -> a - b
      [] op = "mul" -> a * b
      [] op = "div" -> ExactQuotient(a, b)
      [] op = "pow" -> ExactPower(a, b)
      [] op = "fact" -> ExactFactorial(a)

EngineOf(op) ==
    CASE op = "add" -> "ml_add"
      [] op = "sub" -> "ml_sub"
      [] op = "mul" -> "ml_mul"
      [] op = "div" -> "ml_div"
      [] op = "pow" -> "ml_pow"
      [] op = "fact" -> "ml_fact"

\* C8: a valid request calls exactly one engine function, the one of the
\* resolved operation, with operand A first and operand B second (fact: A
\* alone), unchanged; when it returns success the one printed number is the
\* exact result and the exit code is 0.
C8_DispatchCorrectness ==
    pc = "done" /\ ValidRequest =>
        /\ Len(calls) = 1
        /\ calls[1].fn = EngineOf(ReqOp)
        /\ calls[1].args = IF ReqOp = "fact" THEN <<ReqA>> ELSE <<ReqA, ReqB>>
        /\ c.r.error = "ok" =>
              /\ Len(out) = 1 /\ IsNumber(out[1])
              /\ IsDecimal(out[1].text)
              /\ DecValue(out[1].text) = Exact(ReqOp, ReqA, IF ReqOp = "fact" THEN 0 ELSE ReqB)
              /\ err = <<>>
              /\ rc = exit_ok

C8_Witness ==
    /\ pc = "done"
    /\ ValidRequest
    /\ ReqOp = "div" /\ ReqA = -1 /\ ReqB = 2
    /\ c.r.error = "ok"
    /\ out = <<NumberLine(<<"0">>)>>
    /\ rc = exit_ok

\* the loop has not returned early: it goes on, or parse returned ok
ParseOk ==
    \A i \in 1..(optind - 1) : argv[i].flag \in {"o", "a", "b"} /\ ~BadValue(argv[i])

SeenBefore(flag) == \E i \in 1..(optind - 1) : argv[i].flag = flag

LastSeen(flag) ==
    argv[CHOOSE i \in 1..(optind - 1) :
            /\ argv[i].flag = flag
            /\ \A j \in (i + 1)..(optind - 1) : argv[j].flag # flag].arg

\* C9: a flag given more than once overwrites: while the loop goes on and once
\* parse has returned ok, each presence flag is true exactly when its flag was
\* met (so it never goes back to false) and op, a, b hold the value of the last
\* occurrence met; the request checked and evaluated is the one of the last
\* occurrences, and fact with any -b fails the arity check.
C9_LastOccurrenceWins ==
    ParseOk =>
        /\ c.have_op <=> SeenBefore("o")
        /\ c.have_a <=> SeenBefore("a")
        /\ c.have_b <=> SeenBefore("b")
        /\ SeenBefore("o") => c.op = OpNamed(LastSeen("o"))
        /\ SeenBefore("a") => c.a = DecValue(LastSeen("a"))
        /\ SeenBefore("b") => c.b = DecValue(LastSeen("b"))
        /\ \A i \in 1..Len(calls) :
              /\ calls[i].fn = EngineOf(ReqOp)
              /\ calls[i].args[1] = ReqA
              /\ ReqOp # "fact" => calls[i].args[2] = ReqB
        /\ pc = "done" /\ Complete /\ ReqOp = "fact" /\ Supplied("b") =>
              rc = exit_usage /\ calls = <<>>

C9_Witness ==
    /\ pc = "done"
    /\ calls # <<>>
    /\ Len(argv) = MaxArgs
    /\ argv[2].flag = "a" /\ argv[3].flag = "a"
    /\ DecValue(argv[2].arg) # DecValue(argv[3].arg)
    /\ c.a = DecValue(argv[3].arg)

\* C10: while the loop goes on and once parse has returned ok, have_op implies
\* that op is one of the six table operations; the 'unknown operation' branch
\* of calc and of run_operation is never taken.
C10_HaveOpMeansTableOp ==
    /\ ParseOk /\ c.have_op => c.op \in SupportedOps
    /\ \A i \in 1..Len(err) : err[i] # "Error: unknown operation"
    /\ pc = "calc" => c.op \in SupportedOps

C10_Witness ==
    /\ pc = "calc"
    /\ c.have_op
    /\ \E i \in 1..Len(argv) : argv[i].flag = "o" /\ OpNamed(argv[i].arg) # c.op

====
